---- MODULE Spec2Model ----
(***************************************************************************)
(* Model of the order / inventory core and of the catalog (products,       *)
(* categories) of the e-commerce admin API                                 *)
(* (app/db/crud.py, app/api/v1/endpoints/*.py, app/db/models.py).          *)
(*                                                                         *)
(* db      : the committed contents of the database tables                 *)
(* pc      : per request handler (SQLAlchemy session), the position of the *)
(*           handler between its storage calls                             *)
(* sess    : per handler, its local variables and the uncommitted (pending)*)
(*           changes held by its session (autoflush=False: writes reach    *)
(*           the database at db.commit())                                  *)
(* response: the outcome reported by the request that finished last        *)
(* nops    : number of requests started so far                             *)
(***************************************************************************)
EXTENDS Integers, Sequences, FiniteSets, TLC

VARIABLES db, pc, sess, response, nops

vars == <<db, pc, sess, response, nops>>

(***************************************************************************)
(* Bounds of the model                                                     *)
(***************************************************************************)
MaxQty == 2
MaxCalls == 3

Sessions == {"s1", "s2"}
FirstSession == "s1"

(***************************************************************************)
(* Optional[T] values: None is the empty set, a supplied value v is {v}    *)
(***************************************************************************)
None == {}
Some(v) == {v}
IsNone(o) == o = {}
Val(o) == CHOOSE v \in o : TRUE

(***************************************************************************)
(* Helpers on partial functions (tables keyed by a unique column)          *)
(***************************************************************************)
Put(f, k, v) == [x \in (DOMAIN f) \cup {k} |-> IF x = k THEN v ELSE f[x]]
Drop(f, k) == [x \in (DOMAIN f) \ {k} |-> f[x]]
EmptyTable == [x \in {} |-> 0]

(***************************************************************************)
(* Program constants                                                       *)
(***************************************************************************)
DefaultLowStockThreshold == 10
SeedCategoryId == 1

\* reasons written to inventory_logs.reason
InitialStockReason == <<"Initial stock">>
ManualUpdateReason == <<"Manual update">>
SaleReason(order_id) == <<"Sale - Order ID:", order_id>>

(***************************************************************************)
(* Input sets of the requests                                              *)
(***************************************************************************)
\* ids a request may name, and the ids create_product gets to assign where
\* one product is enough: there the other id never names a product
ProductIds == {1, 2}
AssignedIds == {1}
\* number of items of an order, and the relative adjustments tried
ItemCounts == {1, 2}
QuantityChanges == {-3, -1, 0, 1}
AbsoluteQuantities == {0, 1}
Thresholds == {5, DefaultLowStockThreshold}
Prices == {2, 3}
\* category ids (autoincrement) and the names tried
CategoryIds == {1, 2}
CategoryNames == {"Electronics", "Books", "books"}
\* the SKU strings tried: the empty string and a non-empty one
Skus == {"", "A"}

\* schemas/order.py: OrderItemCreate (quantity > 0), OrderCreate (min_length=1)
OrderItemCreate == [product_id : ProductIds, quantity : 1..MaxQty]
OrderCreate == UNION {[1..n -> OrderItemCreate] : n \in ItemCounts}

\* schemas/product.py: ProductCreate (price > 0, initial_quantity >= 0)
ProductCreate ==
    [price : Prices, category_id : {SeedCategoryId, SeedCategoryId + 1},
     sku : {None} \cup {Some(k) : k \in Skus}, initial_quantity : 0..MaxQty,
     low_stock_threshold : {Some(DefaultLowStockThreshold)}]

\* schemas/product.py: ProductUpdate; a field left out is None
ProductUpdate ==
    [price : {None} \cup {Some(v) : v \in Prices},
     category_id : {None} \cup {Some(c) : c \in CategoryIds},
     sku : {None} \cup {Some(k) : k \in Skus}]

\* schemas/category.py: CategoryCreate, CategoryUpdate
CategoryCreate == [name : CategoryNames]
CategoryUpdate == [name : {None} \cup {Some(n) : n \in CategoryNames}]

\* schemas/inventory.py: InventoryUpdate (absolute_quantity >= 0, threshold >= 0)
InventoryUpdate ==
    [quantity_change : {None} \cup {Some(c) : c \in QuantityChanges},
     absolute_quantity : {None} \cup {Some(q) : q \in AbsoluteQuantities},
     low_stock_threshold : {None} \cup {Some(t) : t \in Thresholds}]

\* the requests tried where orders run next to the adjustments: one price,
\* adjustments by one unit up or down or to zero, threshold left alone
ProductCreateCore == {p \in ProductCreate : p.price = 2 /\ IsNone(p.sku)}

InventoryUpdateCore ==
    {u \in InventoryUpdate :
        /\ u.quantity_change \in {None, Some(-1), Some(1)}
        /\ u.absolute_quantity \in {None, Some(0)}
        /\ IsNone(u.low_stock_threshold)}

(***************************************************************************)
(* Initial state: the tables created by initialize_db, holding one         *)
(* category (created through create_category), no products and no orders.  *)
(***************************************************************************)
EmptySess == [op |-> "none"]

Init ==
    /\ db = [categories |-> (SeedCategoryId :> [name |-> "Electronics"]),
             last_category_id |-> SeedCategoryId,
             products |-> EmptyTable,
             last_product_id |-> 0,
             inventory |-> EmptyTable,
             inventory_logs |-> <<>>,
             orders |-> EmptyTable,
             order_items |-> <<>>]
    /\ pc = [s \in Sessions |-> "idle"]
    /\ sess = [s \in Sessions |-> EmptySess]
    /\ response = "none"
    /\ nops = 0

\* a handler starts a request: get_db hands it a fresh session
CanStart(s) == pc[s] = "idle" /\ nops < MaxCalls

\* a handler finishes: the endpoint reports res and get_db closes the
\* session, which drops its locals and whatever it had not committed
Finish(s, res) ==
    /\ pc' = [pc EXCEPT ![s] = "idle"]
    /\ sess' = [sess EXCEPT ![s] = EmptySess]
    /\ response' = res

\* a handler moves on to its next storage call
Goto(s, label, locals) ==
    /\ pc' = [pc EXCEPT ![s] = label]
    /\ sess' = [sess EXCEPT ![s] = locals]
    /\ UNCHANGED response

(***************************************************************************)
(* crud.get_product / get_inventory_by_product_id / get_category /         *)
(* get_product_by_sku                                                      *)
(***************************************************************************)
get_product(d, product_id) ==
    IF product_id \in DOMAIN d.products THEN Some(d.products[product_id]) ELSE None

get_inventory_by_product_id(d, product_id) ==
    IF product_id \in DOMAIN d.inventory THEN Some(d.inventory[product_id]) ELSE None

get_category(d, category_id) ==
    IF category_id \in DOMAIN d.categories THEN Some(d.categories[category_id]) ELSE None

get_product_by_sku(d, sku) ==
    {p \in DOMAIN d.products : d.products[p].sku = Some(sku)}

\* the truth value Python gives an optional string: None and "" are false
Truthy(o) == ~IsNone(o) /\ Val(o) # ""

\* the unique index on products.sku (models.py:23): NULL is never a
\* duplicate, every string, the empty one included, is
SkuTakenUnenforced(d, sku, product_id) ==
    /\ ~IsNone(sku)
    /\ \E p \in {} : d.products[p].sku = sku

SkuTaken(d, sku, product_id) ==
    /\ ~IsNone(sku)
    /\ \E p \in DOMAIN d.products \ {product_id} : d.products[p].sku = sku

(***************************************************************************)
(* create_product: endpoint checks, then crud.create_product, which        *)
(* commits the Product row first and the Inventory row and the "Initial    *)
(* stock" log entry in a second commit.                                    *)
(***************************************************************************)
\* endpoint checks, products.py:27-36
CreateProductCheck(s, product_in) ==
    /\ CanStart(s)
    /\ db.last_product_id + 1 \in ProductIds
    /\ nops' = nops + 1
    /\ UNCHANGED db
    /\ LET locals == [op |-> "create_product",
                      product |-> product_in, product_id |-> 0]
       IN IF IsNone(get_category(db, product_in.category_id))
          THEN Finish(s, "BadRequest")
          ELSE IF Truthy(product_in.sku)
                  /\ get_product_by_sku(db, Val(product_in.sku)) # {}
          THEN Finish(s, "BadRequest")
          ELSE Goto(s, "cp_checked", locals)

\* crud.py:84-93: INSERT of the Product row and first commit.  The insert
\* fails when products.category_id names no category (foreign key,
\* models.py:22) or when the SKU is taken (unique, models.py:23); the
\* outcome is named after the constraint that refused the statement.
CreateProductCommitProductUnconstrained(s) ==
    /\ pc[s] = "cp_checked"
    /\ db.last_product_id + 1 \in ProductIds
    /\ UNCHANGED nops
    /\ LET product_in == sess[s].product
           id == db.last_product_id + 1
           db_product == [price |-> product_in.price,
                          category_id |-> product_in.category_id,
                          sku |-> product_in.sku]
       IN /\ db' = [db EXCEPT !.products = Put(@, id, db_product),
                              !.last_product_id = id]
          /\ Goto(s, "cp_product_committed",
                  [sess[s] EXCEPT !.product_id = id])

CreateProductCommitProduct(s) ==
    /\ pc[s] = "cp_checked"
    /\ db.last_product_id + 1 \in ProductIds
    /\ UNCHANGED nops
    /\ LET product_in == sess[s].product
           id == db.last_product_id + 1
           db_product == [price |-> product_in.price,
                          category_id |-> product_in.category_id,
                          sku |-> product_in.sku]
       IN IF product_in.category_id \notin DOMAIN db.categories
          THEN /\ UNCHANGED db
               /\ Finish(s, "CannotAddChildRow")
          ELSE IF SkuTaken(db, product_in.sku, id)
          THEN /\ UNCHANGED db
               /\ Finish(s, "DuplicateEntry")
          ELSE /\ db' = [db EXCEPT !.products = Put(@, id, db_product),
                                   !.last_product_id = id]
               /\ Goto(s, "cp_product_committed",
                       [sess[s] EXCEPT !.product_id = id])

CreateProductCommitStock(s) ==
    /\ pc[s] = "cp_product_committed"
    /\ UNCHANGED nops
    /\ LET product == sess[s].product
           id == sess[s].product_id
           db_inventory ==
               [quantity |-> product.initial_quantity,
                low_stock_threshold |->
                    IF ~IsNone(product.low_stock_threshold)
                    THEN Val(product.low_stock_threshold)
                    ELSE DefaultLowStockThreshold]
           db_inventory_log ==
               [product_id |-> id,
                change_quantity |-> product.initial_quantity,
                new_quantity |-> product.initial_quantity,
                reason |-> InitialStockReason]
       IN IF id \in DOMAIN db.products
          THEN /\ db' = [db EXCEPT !.inventory = Put(@, id, db_inventory),
                                   !.inventory_logs = Append(@, db_inventory_log)]
               /\ Finish(s, "ok")
          ELSE \* foreign key inventory.product_id -> products.id fails
               /\ UNCHANGED db
               /\ Finish(s, "InternalError")

(***************************************************************************)
(* create_order, crud.py:242-304                                           *)
(***************************************************************************)
\* the two checks made for one item, crud.py:249-255
ItemErrorStockIgnored(d, item_data) ==
    LET db_product == get_product(d, item_data.product_id)
        db_inventory == get_inventory_by_product_id(d, item_data.product_id)
    IN IF IsNone(db_product) THEN "ProductNotFound"
       ELSE IF IsNone(db_inventory) \/ Val(db_inventory).quantity < 0
       THEN "NotEnoughStock"
       ELSE ""

ItemError(d, item_data) ==
    LET db_product == get_product(d, item_data.product_id)
        db_inventory == get_inventory_by_product_id(d, item_data.product_id)
    IN IF IsNone(db_product) THEN "ProductNotFound"
       ELSE IF IsNone(db_inventory)
               \/ Val(db_inventory).quantity < item_data.quantity
       THEN "NotEnoughStock"
       ELSE ""

\* validation loop, crud.py:248-267; acc carries the locals of create_order
RECURSIVE ValidateItems(_, _, _)
ValidateItems(d, items, acc) ==
    IF items = <<>> THEN acc
    ELSE LET item_data == Head(items)
             error == ItemError(d, item_data)
         IN IF error # ""
            THEN [acc EXCEPT !.error = error]
            ELSE LET db_product == get_product(d, item_data.product_id)
                     db_inventory == get_inventory_by_product_id(d, item_data.product_id)
                     price_at_sale == Val(db_product).price
                     subtotal == price_at_sale * item_data.quantity
                 IN ValidateItems(d, Tail(items),
                      [error |-> "",
                       total_order_amount |-> acc.total_order_amount + subtotal,
                       order_items_to_create |->
                           Append(acc.order_items_to_create,
                                  [product_id |-> item_data.product_id,
                                   quantity |-> item_data.quantity,
                                   price_at_sale |-> price_at_sale,
                                   subtotal |-> subtotal]),
                       inventory_updates_needed |->
                           Append(acc.inventory_updates_needed,
                                  [product_id |-> item_data.product_id,
                                   quantity_deducted |-> item_data.quantity,
                                   original_inv_qty |-> Val(db_inventory).quantity])])

ValidateStart ==
    [error |-> "", total_order_amount |-> 0,
     order_items_to_create |-> <<>>, inventory_updates_needed |-> <<>>]

\* crud.py:244-267 and the ValueError handler of the endpoint
CreateOrderValidate(s, order_data) ==
    /\ CanStart(s)
    /\ nops' = nops + 1
    /\ UNCHANGED db
    /\ LET v == ValidateItems(db, order_data, ValidateStart)
           locals == [op |-> "create_order",
                      items |-> order_data,
                      total_order_amount |-> v.total_order_amount,
                      order_items_to_create |-> v.order_items_to_create,
                      inventory_updates_needed |-> v.inventory_updates_needed,
                      order_id |-> 0,
                      quantity |-> EmptyTable,
                      logs |-> <<>>]
       IN IF v.error # ""
          THEN Finish(s, "ValueError")
          ELSE Goto(s, "co_validated", locals)

\* crud.py:270-277: the Order row is inserted and committed on its own
CreateOrderCommitOrder(s) ==
    /\ pc[s] = "co_validated"
    /\ UNCHANGED nops
    /\ LET id == Cardinality(DOMAIN db.orders) + 1
           db_order == [total_amount |-> sess[s].total_order_amount,
                        status |-> "completed"]
       IN /\ db' = [db EXCEPT !.orders = Put(@, id, db_order)]
          /\ Goto(s, "co_order_committed", [sess[s] EXCEPT !.order_id = id])

\* One pass of the deduction loop, crud.py:287-300.  acc.quantity is the
\* quantity attribute of the Inventory objects the session has loaded and
\* modified (a second item of the same product gets the same, already
\* modified, object); acc.logs are the InventoryLog objects added to the
\* session.
DeductOneSkippingShortStock(d, u, order_id, acc) ==
    LET product_id == u.product_id
        loaded == product_id \in DOMAIN acc.quantity
        db_inventory == get_inventory_by_product_id(d, product_id)
        current == IF loaded THEN acc.quantity[product_id]
                   ELSE IF IsNone(db_inventory) THEN 0
                   ELSE Val(db_inventory).quantity
    IN IF (~loaded /\ IsNone(db_inventory)) \/ current < u.quantity_deducted
       THEN acc
       ELSE LET new_inv_quantity == current - u.quantity_deducted
                inventory_log == [product_id |-> product_id,
                                  change_quantity |-> 0 - u.quantity_deducted,
                                  new_quantity |-> new_inv_quantity,
                                  reason |-> SaleReason(order_id)]
            IN [quantity |-> Put(acc.quantity, product_id, new_inv_quantity),
                logs |-> Append(acc.logs, inventory_log)]

DeductOne(d, u, order_id, acc) ==
    LET product_id == u.product_id
        loaded == product_id \in DOMAIN acc.quantity
        db_inventory == get_inventory_by_product_id(d, product_id)
    IN IF ~loaded /\ IsNone(db_inventory)
       THEN acc
       ELSE LET current == IF loaded THEN acc.quantity[product_id]
                           ELSE Val(db_inventory).quantity
                new_inv_quantity == current - u.quantity_deducted
                inventory_log == [product_id |-> product_id,
                                  change_quantity |-> 0 - u.quantity_deducted,
                                  new_quantity |-> new_inv_quantity,
                                  reason |-> SaleReason(order_id)]
            IN [quantity |-> Put(acc.quantity, product_id, new_inv_quantity),
                logs |-> Append(acc.logs, inventory_log)]

\* deduction loop, crud.py:286
RECURSIVE DeductLoop(_, _, _, _)
DeductLoop(d, updates, order_id, acc) ==
    IF updates = <<>> THEN acc
    ELSE DeductLoop(d, Tail(updates), order_id,
                    DeductOne(d, Head(updates), order_id, acc))

\* crud.py:279-300: OrderItems added to the session, stock re-read and
\* decremented in the session; nothing reaches the database yet
CreateOrderDeduct(s) ==
    /\ pc[s] = "co_order_committed"
    /\ UNCHANGED <<db, nops>>
    /\ LET acc == DeductLoop(db, sess[s].inventory_updates_needed,
                             sess[s].order_id,
                             [quantity |-> EmptyTable, logs |-> <<>>])
       IN Goto(s, "co_deducted",
               [sess[s] EXCEPT !.quantity = acc.quantity, !.logs = acc.logs])

\* rows flushed by the final commit
OrderItemRows(order_id, order_items_to_create) ==
    [i \in 1..Len(order_items_to_create) |->
        [order_id |-> order_id,
         product_id |-> order_items_to_create[i].product_id,
         quantity |-> order_items_to_create[i].quantity,
         price_at_sale |-> order_items_to_create[i].price_at_sale,
         subtotal |-> order_items_to_create[i].subtotal]]

\* UPDATE inventory SET quantity = <value computed in the session>
FlushQuantitiesDropped(inventory, quantity) ==
    [p \in DOMAIN inventory |-> inventory[p]]

FlushQuantities(inventory, quantity) ==
    [p \in DOMAIN inventory |->
        IF p \in DOMAIN quantity
        THEN [inventory[p] EXCEPT !.quantity = quantity[p]]
        ELSE inventory[p]]

\* the flush fails when a row refers to a product that is gone
\* (order_items.product_id, inventory_logs.product_id -> products.id) or
\* when a modified Inventory row is gone
FlushOk(d, product_ids, quantity) ==
    /\ \A p \in product_ids : p \in DOMAIN d.products
    /\ \A p \in DOMAIN quantity : p \in DOMAIN d.inventory

\* crud.py:302: OrderItems, stock decrements and log entries in one commit
CreateOrderCommitFinalUnlogged(s) ==
    /\ pc[s] = "co_deducted"
    /\ UNCHANGED nops
    /\ LET rows == OrderItemRows(sess[s].order_id, sess[s].order_items_to_create)
           product_ids == {rows[i].product_id : i \in DOMAIN rows}
       IN IF FlushOk(db, product_ids, sess[s].quantity)
          THEN /\ db' = [db EXCEPT
                          !.order_items = @ \o rows,
                          !.inventory = FlushQuantities(@, sess[s].quantity)]
               /\ Finish(s, "ok")
          ELSE /\ UNCHANGED db
               /\ Finish(s, "InternalError")

CreateOrderCommitFinal(s) ==
    /\ pc[s] = "co_deducted"
    /\ UNCHANGED nops
    /\ LET rows == OrderItemRows(sess[s].order_id, sess[s].order_items_to_create)
           product_ids == {rows[i].product_id : i \in DOMAIN rows}
       IN IF FlushOk(db, product_ids, sess[s].quantity)
          THEN /\ db' = [db EXCEPT
                          !.order_items = @ \o rows,
                          !.inventory = FlushQuantities(@, sess[s].quantity),
                          !.inventory_logs = @ \o sess[s].logs]
               /\ Finish(s, "ok")
          ELSE /\ UNCHANGED db
               /\ Finish(s, "InternalError")

(***************************************************************************)
(* update_inventory: endpoint inventory.py:64-76, crud.py:174-217          *)
(***************************************************************************)
\* crud.py:183-213 on the Inventory object read at line 179: the new
\* quantity, the new threshold and the log entries added to the session
AdjustInventoryUnclamped(db_inventory, product_id, inventory_update) ==
    LET original_quantity == db_inventory.quantity
        new_quantity ==
            IF ~IsNone(inventory_update.quantity_change)
            THEN original_quantity + Val(inventory_update.quantity_change)
            ELSE IF ~IsNone(inventory_update.absolute_quantity)
            THEN Val(inventory_update.absolute_quantity)
            ELSE original_quantity
        change_quantity == new_quantity - original_quantity
    IN [quantity |-> new_quantity,
        low_stock_threshold |->
            IF ~IsNone(inventory_update.low_stock_threshold)
            THEN Val(inventory_update.low_stock_threshold)
            ELSE db_inventory.low_stock_threshold,
        logs |-> IF change_quantity # 0
                 THEN <<[product_id |-> product_id,
                         change_quantity |-> change_quantity,
                         new_quantity |-> new_quantity,
                         reason |-> ManualUpdateReason]>>
                 ELSE <<>>]

AdjustInventory(db_inventory, product_id, inventory_update) ==
    LET original_quantity == db_inventory.quantity
        computed ==
            IF ~IsNone(inventory_update.quantity_change)
            THEN original_quantity + Val(inventory_update.quantity_change)
            ELSE IF ~IsNone(inventory_update.absolute_quantity)
            THEN Val(inventory_update.absolute_quantity)
            ELSE original_quantity
        new_quantity == IF computed < 0 THEN 0 ELSE computed
        change_quantity == new_quantity - original_quantity
        low_stock_threshold ==
            IF ~IsNone(inventory_update.low_stock_threshold)
            THEN Val(inventory_update.low_stock_threshold)
            ELSE db_inventory.low_stock_threshold
        logged ==
            \/ change_quantity # 0
            \/ (~IsNone(inventory_update.quantity_change)
                /\ Val(inventory_update.quantity_change) # 0)
            \/ (~IsNone(inventory_update.absolute_quantity)
                /\ Val(inventory_update.absolute_quantity) # original_quantity)
    IN [quantity |-> new_quantity,
        low_stock_threshold |-> low_stock_threshold,
        logs |-> IF logged
                 THEN <<[product_id |-> product_id,
                         change_quantity |-> change_quantity,
                         new_quantity |-> new_quantity,
                         reason |-> ManualUpdateReason]>>
                 ELSE <<>>]

\* the request checks of the endpoint, inventory.py:68-71
RequestError(inventory_in) ==
    IF ~IsNone(inventory_in.quantity_change)
       /\ ~IsNone(inventory_in.absolute_quantity)
    THEN "BadRequest"
    ELSE IF IsNone(inventory_in.quantity_change)
            /\ IsNone(inventory_in.absolute_quantity)
            /\ IsNone(inventory_in.low_stock_threshold)
    THEN "BadRequest"
    ELSE ""

\* crud.py:179-181: the read of the stock record; the locals keep the
\* request and the Inventory object as loaded
CrudUpdateInventoryRead(s, product_id, inventory_update) ==
    LET db_inventory == get_inventory_by_product_id(db, product_id)
    IN IF IsNone(db_inventory)
       THEN Finish(s, "NotFound")
       ELSE Goto(s, "ui_read",
                 [op |-> "update_inventory",
                  product_id |-> product_id,
                  inventory_in |-> inventory_update,
                  db_inventory |-> Val(db_inventory)])

\* PATCH /inventory/{product_id}/: the endpoint's checks, then
\* crud.update_inventory
UpdateInventoryRead(s, product_id, inventory_in) ==
    /\ CanStart(s)
    /\ nops' = nops + 1
    /\ UNCHANGED db
    /\ IF IsNone(get_product(db, product_id))
       THEN Finish(s, "NotFound")
       ELSE IF RequestError(inventory_in) # ""
       THEN Finish(s, RequestError(inventory_in))
       ELSE CrudUpdateInventoryRead(s, product_id, inventory_in)

\* crud.update_inventory called on its own, without the endpoint in front
UpdateInventoryDirect(s, product_id, inventory_update) ==
    /\ CanStart(s)
    /\ nops' = nops + 1
    /\ UNCHANGED db
    /\ CrudUpdateInventoryRead(s, product_id, inventory_update)

\* The UPDATE sent by the flush sets the columns whose value differs from
\* the loaded one (an attribute set to the value it already had is not
\* written); row is the committed row, loaded the row as read at line 179.
FlushInventoryQuantityOnly(row, loaded, a) ==
    [quantity |-> IF a.quantity # loaded.quantity
                  THEN a.quantity ELSE row.quantity,
     low_stock_threshold |-> row.low_stock_threshold]

FlushInventory(row, loaded, a) ==
    [quantity |-> IF a.quantity # loaded.quantity
                  THEN a.quantity ELSE row.quantity,
     low_stock_threshold |->
         IF a.low_stock_threshold # loaded.low_stock_threshold
         THEN a.low_stock_threshold ELSE row.low_stock_threshold]

\* crud.py:183-215: the computation on the loaded object and the commit
UpdateInventoryCommit(s) ==
    /\ pc[s] = "ui_read"
    /\ UNCHANGED nops
    /\ LET product_id == sess[s].product_id
           a == AdjustInventory(sess[s].db_inventory, product_id,
                                sess[s].inventory_in)
       IN IF product_id \in DOMAIN db.inventory /\ product_id \in DOMAIN db.products
          THEN /\ db' = [db EXCEPT
                          !.inventory[product_id] =
                              FlushInventory(@, sess[s].db_inventory, a),
                          !.inventory_logs = @ \o a.logs]
               /\ Finish(s, "ok")
          ELSE /\ UNCHANGED db
               /\ Finish(s, "InternalError")

(***************************************************************************)
(* delete_product: endpoint products.py:118-133, crud.py:128-142.          *)
(* Product.inventory_logs and Product.order_items have no delete cascade   *)
(* and their product_id columns are NOT NULL foreign keys (models.py:29,   *)
(* 30, 47, 72), so the flush fails when a log entry or an order item still *)
(* refers to the product; the except branch rolls back and returns None.   *)
(***************************************************************************)
ReferencedProductNever(d, product_id) ==
    \/ \E i \in {} : d.inventory_logs[i].product_id = product_id
    \/ \E i \in {} : d.order_items[i].product_id = product_id

ReferencedProduct(d, product_id) ==
    \/ \E i \in DOMAIN d.inventory_logs : d.inventory_logs[i].product_id = product_id
    \/ \E i \in DOMAIN d.order_items : d.order_items[i].product_id = product_id

DeleteProductCascading(s, product_id) ==
    /\ CanStart(s)
    /\ nops' = nops + 1
    /\ IF IsNone(get_product(db, product_id))
       THEN /\ UNCHANGED db
            /\ Finish(s, "NotFound")
       ELSE /\ db' = [db EXCEPT
                       !.products = Drop(@, product_id),
                       !.inventory = Drop(@, product_id),
                       !.inventory_logs =
                           SelectSeq(@, LAMBDA e : e.product_id # product_id),
                       !.order_items =
                           SelectSeq(@, LAMBDA r : r.product_id # product_id)]
            /\ Finish(s, "ok")

DeleteProduct(s, product_id) ==
    /\ CanStart(s)
    /\ nops' = nops + 1
    /\ LET locals == [op |-> "delete_product",
                      product_id |-> product_id]
       IN IF IsNone(get_product(db, product_id))
          THEN /\ UNCHANGED db
               /\ Finish(s, "NotFound")
          ELSE IF ReferencedProduct(db, product_id)
          THEN /\ UNCHANGED db
               /\ Finish(s, "CouldNotDelete")
          ELSE /\ db' = [db EXCEPT !.products = Drop(@, product_id),
                                   !.inventory = Drop(@, product_id)]
               /\ Finish(s, "ok")

(***************************************************************************)
(* update_product: endpoint products.py:84-101, crud.py:115-126            *)
(***************************************************************************)
UpdateProductRead(s, product_id, product_in) ==
    /\ CanStart(s)
    /\ nops' = nops + 1
    /\ UNCHANGED db
    /\ LET db_product == get_product(db, product_id)
       IN IF IsNone(db_product)
          THEN Finish(s, "NotFound")
          ELSE IF /\ ~IsNone(product_in.category_id)
                  /\ Val(product_in.category_id) # Val(db_product).category_id
                  /\ IsNone(get_category(db, Val(product_in.category_id)))
          THEN Finish(s, "BadRequest")
          ELSE IF /\ Truthy(product_in.sku)
                  /\ product_in.sku # Val(db_product).sku
                  /\ get_product_by_sku(db, Val(product_in.sku))
                        \ {product_id} # {}
          THEN Finish(s, "BadRequest")
          ELSE Goto(s, "up_read",
                    [op |-> "update_product",
                     product_id |-> product_id,
                     product_in |-> product_in,
                     db_product |-> Val(db_product)])

\* crud.py:120-122: setattr for every field of the request
SetProductFields(db_product, product_update) ==
    [db_product EXCEPT
        !.price = IF IsNone(product_update.price)
                  THEN @ ELSE Val(product_update.price),
        !.category_id = IF IsNone(product_update.category_id)
                        THEN @ ELSE Val(product_update.category_id),
        !.sku = IF IsNone(product_update.sku) THEN @ ELSE product_update.sku]

\* the UPDATE sets the columns whose value differs from the loaded one
FlushProduct(row, loaded, updated) ==
    [row EXCEPT
        !.price = IF updated.price # loaded.price THEN updated.price ELSE @,
        !.category_id = IF updated.category_id # loaded.category_id
                        THEN updated.category_id ELSE @,
        !.sku = IF updated.sku # loaded.sku THEN updated.sku ELSE @]

\* crud.py:124: the commit; it fails when the row is gone, when the new
\* category_id names no category (foreign key, models.py:22) or when the
\* new SKU is that of another product (unique, models.py:23)
UpdateProductCommitRepricing(s) ==
    /\ pc[s] = "up_read"
    /\ UNCHANGED nops
    /\ LET product_id == sess[s].product_id
           updated == SetProductFields(sess[s].db_product, sess[s].product_in)
       IN /\ product_id \in DOMAIN db.products
          /\ db' = [db EXCEPT
                      !.products[product_id] = updated,
                      !.order_items =
                          [i \in DOMAIN db.order_items |->
                              LET row == db.order_items[i]
                              IN IF row.product_id = product_id
                                 THEN [product_id |-> row.product_id,
                                       order_id |-> row.order_id,
                                       quantity |-> row.quantity,
                                       price_at_sale |-> updated.price,
                                       subtotal |-> updated.price * row.quantity]
                                 ELSE row]]
          /\ Finish(s, "ok")

UpdateProductCommit(s) ==
    /\ pc[s] = "up_read"
    /\ UNCHANGED nops
    /\ LET product_id == sess[s].product_id
           loaded == sess[s].db_product
           updated == SetProductFields(loaded, sess[s].product_in)
       IN IF product_id \notin DOMAIN db.products
          THEN /\ UNCHANGED db
               /\ Finish(s, "InternalError")
          ELSE IF updated.category_id # loaded.category_id
                  /\ updated.category_id \notin DOMAIN db.categories
          THEN /\ UNCHANGED db
               /\ Finish(s, "CannotAddChildRow")
          ELSE IF updated.sku # loaded.sku
                  /\ SkuTaken(db, updated.sku, product_id)
          THEN /\ UNCHANGED db
               /\ Finish(s, "DuplicateEntry")
          ELSE /\ db' = [db EXCEPT !.products[product_id] =
                                      FlushProduct(@, loaded, updated)]
               /\ Finish(s, "ok")

(***************************************************************************)
(* Categories: endpoints categories.py, crud.py:27-60                      *)
(***************************************************************************)
\* func.lower on the names tried
Lower(name) ==
    CASE name = "Electronics" -> "electronics"
      [] name = "Books" -> "books"
      [] OTHER -> name

\* crud.get_category_by_name: the ids whose name matches ignoring case
get_category_by_name(d, name) ==
    {c \in DOMAIN d.categories : Lower(d.categories[c].name) = Lower(name)}

\* the unique index on categories.name (models.py:10); the comparison is
\* that of the column's collation, which for MySQL's defaults ignores case
NameTakenCaseSensitive(d, name, category_id) ==
    \E c \in DOMAIN d.categories :
        c # category_id /\ d.categories[c].name = name

NameTaken(d, name, category_id) ==
    \E c \in DOMAIN d.categories :
        c # category_id /\ Lower(d.categories[c].name) = Lower(name)

\* POST /categories/: the name check of the endpoint, categories.py:21-23
CreateCategoryCheck(s, category_in) ==
    /\ CanStart(s)
    /\ db.last_category_id + 1 \in CategoryIds
    /\ nops' = nops + 1
    /\ UNCHANGED db
    /\ IF get_category_by_name(db, category_in.name) # {}
       THEN Finish(s, "BadRequest")
       ELSE Goto(s, "cc_checked",
                 [op |-> "create_category", category |-> category_in])

\* crud.create_category, crud.py:36-41
CreateCategoryCommit(s) ==
    /\ pc[s] = "cc_checked"
    /\ db.last_category_id + 1 \in CategoryIds
    /\ UNCHANGED nops
    /\ LET id == db.last_category_id + 1
           name == sess[s].category.name
       IN IF NameTaken(db, name, id)
          THEN /\ UNCHANGED db
               /\ Finish(s, "DuplicateEntry")
          ELSE /\ db' = [db EXCEPT !.categories = Put(@, id, [name |-> name]),
                                   !.last_category_id = id]
               /\ Finish(s, "ok")

\* PUT /categories/{id}: categories.py:61-69 and the read of crud.py:44
UpdateCategoryRead(s, category_id, category_in) ==
    /\ CanStart(s)
    /\ nops' = nops + 1
    /\ UNCHANGED db
    /\ LET db_category == get_category(db, category_id)
       IN IF IsNone(db_category)
          THEN Finish(s, "NotFound")
          ELSE IF /\ ~IsNone(category_in.name)
                  /\ Val(category_in.name) # Val(db_category).name
                  /\ get_category_by_name(db, Val(category_in.name))
                        \ {category_id} # {}
          THEN Finish(s, "BadRequest")
          ELSE Goto(s, "uc_read",
                    [op |-> "update_category",
                     category_id |-> category_id,
                     category_in |-> category_in,
                     db_category |-> Val(db_category)])

\* crud.update_category, crud.py:47-50
UpdateCategoryCommit(s) ==
    /\ pc[s] = "uc_read"
    /\ UNCHANGED nops
    /\ LET category_id == sess[s].category_id
           loaded == sess[s].db_category
           name == IF IsNone(sess[s].category_in.name)
                   THEN loaded.name ELSE Val(sess[s].category_in.name)
       IN IF name = loaded.name
          THEN /\ UNCHANGED db
               /\ Finish(s, "ok")
          ELSE IF category_id \notin DOMAIN db.categories
          THEN /\ UNCHANGED db
               /\ Finish(s, "InternalError")
          ELSE IF NameTaken(db, name, category_id)
          THEN /\ UNCHANGED db
               /\ Finish(s, "DuplicateEntry")
          ELSE /\ db' = [db EXCEPT !.categories[category_id].name = name]
               /\ Finish(s, "ok")

\* the endpoint's query, categories.py:86
ProductsInCategory(d, category_id) ==
    {p \in DOMAIN d.products : d.products[p].category_id = category_id}

\* the foreign key products.category_id -> categories.id (models.py:22),
\* checked by the database against the committed rows
CategoryReferencedUnenforced(d, category_id) ==
    \E p \in {} : d.products[p].category_id = category_id

CategoryReferenced(d, category_id) ==
    \E p \in DOMAIN d.products : d.products[p].category_id = category_id

\* DELETE /categories/{id}: categories.py:86-91 and the read of crud.py:55
DeleteCategoryCheck(s, category_id) ==
    /\ CanStart(s)
    /\ nops' = nops + 1
    /\ UNCHANGED db
    /\ IF ProductsInCategory(db, category_id) # {}
       THEN Finish(s, "CategoryInUse")
       ELSE IF IsNone(get_category(db, category_id))
       THEN Finish(s, "NotFound")
       ELSE Goto(s, "dc_checked",
                 [op |-> "delete_category", category_id |-> category_id])

\* crud.py:58-59: the DELETE and its commit; a row already deleted by
\* another session is not an error
DeleteCategoryCommit(s) ==
    /\ pc[s] = "dc_checked"
    /\ UNCHANGED nops
    /\ LET category_id == sess[s].category_id
       IN IF CategoryReferenced(db, category_id)
          THEN /\ UNCHANGED db
               /\ Finish(s, "CannotDeleteParentRow")
          ELSE /\ db' = [db EXCEPT !.categories =
                              IF category_id \in DOMAIN @
                              THEN Drop(@, category_id) ELSE @]
               /\ Finish(s, "ok")

(***************************************************************************)
(* A storage failure while a handler waits on a storage call: the call     *)
(* raises, the endpoint reports the error and get_db closes the session    *)
(* (database.py:24-29), which discards what the session had not committed. *)
(***************************************************************************)
StorageCallPending(s) ==
    pc[s] \in {"cp_checked", "cp_product_committed", "co_validated",
               "co_order_committed", "co_deducted", "ui_read",
               "up_read", "cc_checked", "uc_read", "dc_checked"}

StorageFailure(s) ==
    /\ StorageCallPending(s)
    /\ UNCHANGED <<db, nops>>
    /\ Finish(s, "InternalError")

\* the ids create_product may still assign are among ids
IdLeft(ids) == db.last_product_id + 1 \in ids

Step(s, products, updates) ==
    \/ \E product_in \in products :
           IdLeft(AssignedIds) /\ CreateProductCheck(s, product_in)
    \/ IdLeft(AssignedIds) /\ CreateProductCommitProduct(s)
    \/ CreateProductCommitStock(s)
    \/ \E order_data \in OrderCreate : CreateOrderValidate(s, order_data)
    \/ CreateOrderCommitOrder(s)
    \/ CreateOrderDeduct(s)
    \/ CreateOrderCommitFinal(s)
    \/ \E product_id \in ProductIds, inventory_in \in updates :
           UpdateInventoryRead(s, product_id, inventory_in)
    \/ UpdateInventoryCommit(s)
    \/ \E product_id \in ProductIds : DeleteProduct(s, product_id)
    \/ StorageFailure(s)

\* concurrent request handlers
Next == \E s \in Sessions : Step(s, ProductCreateCore, InventoryUpdateCore)

Spec == Init /\ [][Next]_vars

\* requests executed one at a time
NextSeq == Step(FirstSession, ProductCreateCore, InventoryUpdateCore)

SpecSeq == Init /\ [][NextSeq]_vars

\* concurrent request handlers, manual adjustments by quantity_change only
InventoryUpdateRelative ==
    {u \in InventoryUpdateCore : IsNone(u.absolute_quantity)}

NextRelative ==
    \E s \in Sessions : Step(s, ProductCreateCore, InventoryUpdateRelative)

SpecRelative == Init /\ [][NextRelative]_vars

\* the catalog operations: update_product and the category operations;
\* the SKU is left alone
ProductUpdateCatalog == {u \in ProductUpdate : IsNone(u.sku)}

CatalogStep(s) ==
    \/ \E product_id \in ProductIds, product_in \in ProductUpdateCatalog :
           UpdateProductRead(s, product_id, product_in)
    \/ UpdateProductCommit(s)
    \/ \E category_in \in CategoryCreate : CreateCategoryCheck(s, category_in)
    \/ CreateCategoryCommit(s)
    \/ \E category_id \in CategoryIds, category_in \in CategoryUpdate :
           UpdateCategoryRead(s, category_id, category_in)
    \/ UpdateCategoryCommit(s)
    \/ \E category_id \in CategoryIds : DeleteCategoryCheck(s, category_id)
    \/ DeleteCategoryCommit(s)

\* every operation of the API, one request at a time
NextAll ==
    \/ Step(FirstSession, ProductCreateCore, InventoryUpdateCore)
    \/ CatalogStep(FirstSession)

SpecAll == Init /\ [][NextAll]_vars

\* the catalog under concurrency: products without stock, categories
ProductCreateCatalog == {p \in ProductCreateCore : p.initial_quantity = 0}

NextCatalog ==
    \E s \in Sessions :
        \/ \E product_in \in ProductCreateCatalog :
               IdLeft(AssignedIds) /\ CreateProductCheck(s, product_in)
        \/ IdLeft(AssignedIds) /\ CreateProductCommitProduct(s)
        \/ CreateProductCommitStock(s)
        \/ \E product_id \in ProductIds : DeleteProduct(s, product_id)
        \/ CatalogStep(s)
        \/ StorageFailure(s)

SpecCatalog == Init /\ [][NextCatalog]_vars

\* Manual adjustments on their own, one request at a time, over the wide
\* request set: the endpoint and crud.update_inventory called directly.
\* A threshold is supplied on its own and absolute_quantity is not 0, so
\* that a threshold of 5 and a logged new_quantity of 0 each have one origin.
InventoryUpdateAdjust ==
    {u \in InventoryUpdate :
        /\ u.absolute_quantity # Some(0)
        /\ ~IsNone(u.low_stock_threshold)
             => (IsNone(u.quantity_change) /\ IsNone(u.absolute_quantity))}

AdjustStep(s) ==
    \/ \E product_in \in ProductCreateCore :
           IdLeft(AssignedIds) /\ CreateProductCheck(s, product_in)
    \/ IdLeft(AssignedIds) /\ CreateProductCommitProduct(s)
    \/ CreateProductCommitStock(s)
    \/ \E product_id \in ProductIds, inventory_in \in InventoryUpdateAdjust :
           UpdateInventoryRead(s, product_id, inventory_in)
    \/ \E product_id \in ProductIds, inventory_update \in InventoryUpdateAdjust :
           UpdateInventoryDirect(s, product_id, inventory_update)
    \/ UpdateInventoryCommit(s)
    \/ StorageFailure(s)

NextAdjust == AdjustStep(FirstSession)

SpecAdjust == Init /\ [][NextAdjust]_vars

\* SKUs under concurrency: create_product and update_product of up to two
\* products, with and without a SKU, naming the seed category or a missing one
ProductCreateSku ==
    {p \in ProductCreate : p.price = 2 /\ p.initial_quantity = 0}

ProductUpdateSku ==
    {u \in ProductUpdate : IsNone(u.price) /\ IsNone(u.category_id)}

NextSku ==
    \E s \in Sessions :
        \/ \E product_in \in ProductCreateSku : CreateProductCheck(s, product_in)
        \/ CreateProductCommitProduct(s)
        \/ CreateProductCommitStock(s)
        \/ \E product_id \in ProductIds, product_in \in ProductUpdateSku :
               UpdateProductRead(s, product_id, product_in)
        \/ UpdateProductCommit(s)
        \/ StorageFailure(s)

SpecSku == Init /\ [][NextSku]_vars

\* Orders next to price changes: one fully stocked product, orders for it
\* and update_product requests that set its price to 3
ProductCreatePricing ==
    {p \in ProductCreateCore : p.initial_quantity = MaxQty /\ p.category_id = SeedCategoryId}

ProductUpdatePricing ==
    {u \in ProductUpdateCatalog : u.price = Some(3) /\ IsNone(u.category_id)}

NextPricing ==
    \E s \in Sessions :
        \/ \E product_in \in ProductCreatePricing :
               IdLeft(AssignedIds) /\ CreateProductCheck(s, product_in)
        \/ IdLeft(AssignedIds) /\ CreateProductCommitProduct(s)
        \/ CreateProductCommitStock(s)
        \/ \E order_data \in OrderCreate : CreateOrderValidate(s, order_data)
        \/ CreateOrderCommitOrder(s)
        \/ CreateOrderDeduct(s)
        \/ CreateOrderCommitFinal(s)
        \/ \E product_id \in AssignedIds, product_in \in ProductUpdatePricing :
               UpdateProductRead(s, product_id, product_in)
        \/ UpdateProductCommit(s)
        \/ StorageFailure(s)

SpecPricing == Init /\ [][NextPricing]_vars

(***************************************************************************)
(* Sales listing: crud.get_sales_data (crud.py:336-373) and                *)
(* get_paginated_items (crud.py:13-23), endpoint sales_reports.py:14-60.   *)
(***************************************************************************)
\* Order.order_date (models.py:59) is set by the database when the Order row
\* is inserted: later orders do not have earlier dates.  A date is the
\* number yyyymmdd; the orders are dated 2024-01-05, 2024-01-20 and, from
\* the third on, 2024-02-02; the items of one order share its date.
OrderDates == <<20240105, 20240120, 20240202>>

order_date(d, order_id) ==
    OrderDates[IF order_id < Len(OrderDates) THEN order_id ELSE Len(OrderDates)]

\* the joined rows that pass the filters, crud.py:345-368, by their position
\* in order_items; a filter left out, or 0, filters nothing
SalesRows(d, product_id, category_id) ==
    {i \in DOMAIN d.order_items :
        LET item == d.order_items[i]
        IN /\ item.order_id \in DOMAIN d.orders
           /\ item.product_id \in DOMAIN d.products
           /\ d.products[item.product_id].category_id \in DOMAIN d.categories
           /\ (IsNone(product_id) \/ Val(product_id) = 0
               \/ item.product_id = Val(product_id))
           /\ (IsNone(category_id) \/ Val(category_id) = 0
               \/ d.products[item.product_id].category_id = Val(category_id))}

\* the columns selected, crud.py:346-356
SaleItemDetail(d, i) ==
    LET item == d.order_items[i]
    IN [order_id |-> item.order_id,
        order_date |-> order_date(d, item.order_id),
        product_id |-> item.product_id,
        category_id |-> d.products[item.product_id].category_id,
        quantity_sold |-> item.quantity,
        price_at_sale |-> item.price_at_sale,
        subtotal |-> item.subtotal]

\* ORDER BY order_date DESC, crud.py:371: every arrangement of the rows in
\* which no row comes before a row of a later date; rows of the same date
\* come in an order the database is free to choose at each execution
SalesOrderings(d, rows) ==
    {q \in [1..Cardinality(rows) -> rows] :
        /\ \A i, j \in DOMAIN q : i # j => q[i] # q[j]
        /\ \A i, j \in DOMAIN q :
              i < j => order_date(d, d.order_items[q[i]].order_id)
                        >= order_date(d, d.order_items[q[j]].order_id)}

\* crud.get_paginated_items: count, OFFSET and LIMIT, number of pages
get_paginated_items(d, q, page, page_size) ==
    LET total_items == Len(q)
        first == (page - 1) * page_size + 1
        last == IF page * page_size < total_items
                THEN page * page_size ELSE total_items
    IN [total_items |-> total_items,
        items |-> [k \in 1..(IF last >= first THEN last - first + 1 ELSE 0) |->
                      SaleItemDetail(d, q[first + k - 1])],
        page |-> page,
        page_size |-> page_size,
        num_pages |-> (total_items + page_size - 1) \div page_size]

\* the requests tried
SalesPages == {1, 2}
SalesPageSizes == {1, 2}
SalesRequest ==
    [product_id : {None, Some(1)}, page : SalesPages, page_size : SalesPageSizes]

\* GET /reports/sales/: the handler has the page in hand, sales_reports.py:34
GetSalesData(s, request) ==
    /\ CanStart(s)
    /\ nops' = nops + 1
    /\ UNCHANGED db
    /\ \E q \in SalesOrderings(db, SalesRows(db, request.product_id, None)) :
          Goto(s, "sd_fetched",
               [op |-> "get_sales_data",
                request |-> request,
                sales_data_paginated |->
                    get_paginated_items(db, q, request.page, request.page_size)])

\* sales_reports.py:50-60: the response is built and returned
SalesDataReturn(s) ==
    /\ pc[s] = "sd_fetched"
    /\ UNCHANGED <<db, nops>>
    /\ Finish(s, "ok")

\* The catalog the reports are read from: one product stocked with
\* SalesStock units, as create_product leaves it.
SalesStock == 3 * MaxQty

SalesCatalog ==
    [categories |-> (SeedCategoryId :> [name |-> "Electronics"]),
     last_category_id |-> SeedCategoryId,
     products |-> (1 :> [price |-> 2, category_id |-> SeedCategoryId,
                         sku |-> None]),
     last_product_id |-> 1,
     inventory |-> (1 :> [quantity |-> SalesStock,
                          low_stock_threshold |-> DefaultLowStockThreshold]),
     inventory_logs |-> <<[product_id |-> 1, change_quantity |-> SalesStock,
                           new_quantity |-> SalesStock,
                           reason |-> InitialStockReason]>>,
     orders |-> EmptyTable,
     order_items |-> <<>>]

\* crud.create_order run to its end on d
OrderPlaced(d, order_data) ==
    LET v == ValidateItems(d, order_data, ValidateStart)
        id == Cardinality(DOMAIN d.orders) + 1
        acc == DeductLoop(d, v.inventory_updates_needed, id,
                          [quantity |-> EmptyTable, logs |-> <<>>])
    IN [d EXCEPT
          !.orders = Put(@, id, [total_amount |-> v.total_order_amount,
                                 status |-> "completed"]),
          !.order_items = @ \o OrderItemRows(id, v.order_items_to_create),
          !.inventory = FlushQuantities(@, acc.quantity),
          !.inventory_logs = @ \o acc.logs]

\* one order of two lines
InitSales ==
    /\ \E order_data \in OrderCreate :
          /\ Len(order_data) = 2
          /\ \A i \in DOMAIN order_data : order_data[i].product_id = 1
          /\ db = OrderPlaced(SalesCatalog, order_data)
    /\ pc = [s \in Sessions |-> "idle"]
    /\ sess = [s \in Sessions |-> EmptySess]
    /\ response = "none"
    /\ nops = 0

NextSales ==
    \E s \in Sessions :
        \/ \E request \in SalesRequest : GetSalesData(s, request)
        \/ SalesDataReturn(s)

SpecSales == InitSales /\ [][NextSales]_vars

(***************************************************************************)
(* Revenue reports: crud.get_revenue_for_period (crud.py:452-475),         *)
(* crud.get_revenue_summary (crud.py:376-449) and their endpoints          *)
(* (sales_reports.py:62-160).                                              *)
(***************************************************************************)
\* what the libraries under the code provide: the methods of SQLAlchemy's
\* Query that crud.py calls and Query has, and the SQL functions that the
\* statements name and MySQL (config.py:14-15) has
QueryMethods ==
    {"filter", "join", "group_by", "order_by", "offset", "limit",
     "count", "first", "all"}
DatabaseFunctions == {"sum", "date", "lower", "now", "count"}

\* the calendar of datetime.date on the numbers yyyymmdd
Year(date) == date \div 10000
Month(date) == (date \div 100) % 100
Day(date) == date % 100
MakeDate(y, m, day) == y * 10000 + m * 100 + day

DaysInMonth(y, m) ==
    IF m = 2
    THEN (IF y % 4 = 0 /\ (y % 100 # 0 \/ y % 400 = 0) THEN 29 ELSE 28)
    ELSE IF m \in {4, 6, 9, 11} THEN 30 ELSE 31

NextDay(date) ==
    IF Day(date) < DaysInMonth(Year(date), Month(date)) THEN date + 1
    ELSE IF Month(date) < 12 THEN MakeDate(Year(date), Month(date) + 1, 1)
    ELSE MakeDate(Year(date) + 1, 1, 1)

PrevDay(date) ==
    IF Day(date) > 1 THEN date - 1
    ELSE IF Month(date) > 1
    THEN MakeDate(Year(date), Month(date) - 1,
                  DaysInMonth(Year(date), Month(date) - 1))
    ELSE MakeDate(Year(date) - 1, 12, 31)

\* date + datetime.timedelta(days=n)
RECURSIVE AddDays(_, _)
AddDays(date, n) ==
    IF n = 0 THEN date
    ELSE IF n > 0 THEN AddDays(NextDay(date), n - 1)
    ELSE AddDays(PrevDay(date), n + 1)

\* the truth value Python gives an optional integer: None and 0 are false
TruthyId(o) == ~IsNone(o) /\ Val(o) # 0

\* the joined rows inside the date range and the category, crud.py:458-469
\* and 397-412
RevenueRows(d, start_date, end_date, category_id) ==
    SelectSeq(d.order_items,
        LAMBDA item :
            /\ item.order_id \in DOMAIN d.orders
            /\ item.product_id \in DOMAIN d.products
            /\ order_date(d, item.order_id) >= start_date
            /\ order_date(d, item.order_id) <= end_date
            /\ TruthyId(category_id)
                 => /\ d.products[item.product_id].category_id = Val(category_id)
                    /\ Val(category_id) \in DOMAIN d.categories)

\* func.sum(OrderItem.subtotal): NULL (None) over no rows
RECURSIVE SumOf(_)
SumOf(rows) ==
    IF rows = <<>> THEN 0 ELSE Head(rows).subtotal + SumOf(Tail(rows))

\* crud.get_revenue_for_period: line 474 calls Query.scalar_one_or_none,
\* which Query does not have, so the call raises AttributeError
get_revenue_for_period(d, start_date, end_date, category_id) ==
    LET rows == RevenueRows(d, start_date, end_date, category_id)
        result == IF rows = <<>> THEN None ELSE Some(SumOf(rows))
    IN IF "scalar_one_or_none" \notin QueryMethods
       THEN [error |-> "AttributeError", revenue |-> 0]
       ELSE [error |-> "",
             revenue |-> IF ~IsNone(result) THEN Val(result) ELSE 0]

\* round(x, 2) of the Decimal n / m * 100, in hundredths: round half even
RoundHundredths(n, m) ==
    LET q == (n * 10000) \div m
        r == (n * 10000) - q * m
    IN IF 2 * r < m THEN q
       ELSE IF 2 * r > m THEN q + 1
       ELSE IF q % 2 = 0 THEN q ELSE q + 1

\* sales_reports.py:131-156; percentage_change is the number of
\* hundredths of a percent, or float('inf')
RevenueComparison(d, request) ==
    LET category_id2 ==
            IF ~IsNone(request.category_id1) /\ IsNone(request.category_id2)
            THEN request.category_id1 ELSE request.category_id2
        r1 == get_revenue_for_period(d, request.p1_start, request.p1_end,
                                     request.category_id1)
        r2 == get_revenue_for_period(d, request.p2_start, request.p2_end,
                                     category_id2)
        rev1 == r1.revenue
        rev2 == r2.revenue
        difference == rev2 - rev1
    IN IF r1.error # "" \/ r2.error # ""
       THEN [error |-> "InternalError", period1_revenue |-> 0,
             period2_revenue |-> 0, difference |-> 0,
             percentage_change |-> [inf |-> FALSE, hundredths |-> 0]]
       ELSE [error |-> "",
             period1_revenue |-> rev1,
             period2_revenue |-> rev2,
             difference |-> difference,
             percentage_change |->
                 IF rev1 > 0
                 THEN [inf |-> FALSE,
                       hundredths |-> RoundHundredths(difference, rev1)]
                 ELSE IF rev2 > 0
                 THEN [inf |-> TRUE, hundredths |-> 0]
                 ELSE [inf |-> FALSE, hundredths |-> 0]]

\* the truncation of order_date to the start of its bucket, crud.py:384-389
PeriodFunction(period) == IF period = "daily" THEN "date" ELSE "date_trunc"

PeriodStart(period, date) ==
    IF period = "monthly" THEN MakeDate(Year(date), Month(date), 1)
    ELSE IF period = "annually" THEN MakeDate(Year(date), 1, 1)
    ELSE date

\* crud.py:424-441: the inclusive end of the bucket
PeriodEnd(period, ps) ==
    IF period = "monthly"
    THEN LET next_month ==
                 AddDays(MakeDate(Year(ps), Month(ps), 28), 4)
         IN AddDays(next_month, 0 - Day(next_month))
    ELSE IF period = "annually" THEN MakeDate(Year(ps), 12, 31)
    ELSE ps

\* GROUP BY period_start ORDER BY period_start, crud.py:409-416
RECURSIVE SummaryRows(_, _, _)
SummaryRows(period, rows, starts) ==
    IF starts = {} THEN <<>>
    ELSE LET ps == CHOOSE x \in starts : \A y \in starts : x <= y
         IN <<[period_start |-> ps,
               period_end |-> PeriodEnd(period, ps),
               total_revenue |->
                   SumOf(SelectSeq(rows,
                       LAMBDA item : PeriodStart(period, item.date) = ps))]>>
            \o SummaryRows(period, rows, starts \ {ps})

\* crud.get_revenue_summary: the statement names the truncation function,
\* sum and, without a category, lit (crud.py:397-401); the database refuses
\* a statement that names a function it does not have
get_revenue_summary(d, period, start_date, end_date, category_id) ==
    LET functions == {PeriodFunction(period), "sum"}
                       \cup (IF TruthyId(category_id) THEN {} ELSE {"lit"})
        items == RevenueRows(d, start_date, end_date, category_id)
        rows == [i \in DOMAIN items |->
                    [date |-> order_date(d, items[i].order_id),
                     subtotal |-> items[i].subtotal]]
        starts == {PeriodStart(period, rows[i].date) : i \in DOMAIN rows}
    IN IF period \notin {"daily", "weekly", "monthly", "annually"}
       THEN [error |-> "ValueError", rows |-> <<>>]
       ELSE IF ~(functions \subseteq DatabaseFunctions)
       THEN [error |-> "OperationalError", rows |-> <<>>]
       ELSE [error |-> "", rows |-> SummaryRows(period, rows, starts)]

\* the requests tried
ReportDates == {20240101, 20240131, 20240229}
ReportCategories == {None, Some(SeedCategoryId)}
ComparisonRequest ==
    [p1_start : ReportDates, p1_end : ReportDates,
     p2_start : ReportDates, p2_end : ReportDates,
     category_id1 : ReportCategories, category_id2 : {None}]
SummaryRequest ==
    [period : {"daily", "monthly", "hourly"},
     start_date : ReportDates, end_date : ReportDates,
     category_id : ReportCategories]

\* GET /reports/revenue/comparison/: sales_reports.py:120-128
GetRevenueComparison(s, request) ==
    /\ CanStart(s)
    /\ nops' = nops + 1
    /\ UNCHANGED db
    /\ IF request.p1_start > request.p1_end \/ request.p2_start > request.p2_end
       THEN Finish(s, "BadRequest")
       ELSE Goto(s, "rc_validated",
                 [op |-> "get_revenue_comparison", request |-> request])

\* sales_reports.py:134-160
RevenueComparisonRespond(s) ==
    /\ pc[s] = "rc_validated"
    /\ UNCHANGED <<db, nops>>
    /\ Finish(s, IF RevenueComparison(db, sess[s].request).error # ""
                 THEN "InternalError" ELSE "ok")

\* GET /reports/revenue/summary/: sales_reports.py:73-83
GetRevenueSummary(s, request) ==
    /\ CanStart(s)
    /\ nops' = nops + 1
    /\ UNCHANGED db
    /\ IF request.start_date > request.end_date
       THEN Finish(s, "BadRequest")
       ELSE IF request.period \notin {"daily", "weekly", "monthly", "annually"}
       THEN Finish(s, "BadRequest")
       ELSE Goto(s, "rs_validated",
                 [op |-> "get_revenue_summary", request |-> request])

\* sales_reports.py:85-105
RevenueSummaryRespond(s) ==
    /\ pc[s] = "rs_validated"
    /\ UNCHANGED <<db, nops>>
    /\ LET r == get_revenue_summary(db, sess[s].request.period,
                                    sess[s].request.start_date,
                                    sess[s].request.end_date,
                                    sess[s].request.category_id)
       IN Finish(s, IF r.error = "" THEN "ok"
                    ELSE IF r.error = "ValueError" THEN "BadRequest"
                    ELSE "InternalError")

\* three orders of one line each, dated as OrderDates says
InitReports ==
    /\ \E q1, q2, q3 \in 1..MaxQty :
          db = OrderPlaced(
                 OrderPlaced(
                   OrderPlaced(SalesCatalog,
                               <<[product_id |-> 1, quantity |-> q1]>>),
                   <<[product_id |-> 1, quantity |-> q2]>>),
                 <<[product_id |-> 1, quantity |-> q3]>>)
    /\ pc = [s \in Sessions |-> "idle"]
    /\ sess = [s \in Sessions |-> EmptySess]
    /\ response = "none"
    /\ nops = 0

\* the reports, one request at a time
NextReports ==
    \/ \E request \in ComparisonRequest :
           GetRevenueComparison(FirstSession, request)
    \/ RevenueComparisonRespond(FirstSession)
    \/ \E request \in SummaryRequest : GetRevenueSummary(FirstSession, request)
    \/ RevenueSummaryRespond(FirstSession)

SpecReports == InitReports /\ [][NextReports]_vars

(***************************************************************************)
(* Derived views of the committed tables                                   *)
(***************************************************************************)
RECURSIVE SumChangeQuantity(_)
SumChangeQuantity(logs) ==
    IF logs = <<>> THEN 0
    ELSE Head(logs).change_quantity + SumChangeQuantity(Tail(logs))

RECURSIVE SumQuantity(_)
SumQuantity(rows) ==
    IF rows = <<>> THEN 0 ELSE Head(rows).quantity + SumQuantity(Tail(rows))

RECURSIVE SumSubtotal(_)
SumSubtotal(rows) ==
    IF rows = <<>> THEN 0 ELSE Head(rows).subtotal + SumSubtotal(Tail(rows))

RECURSIVE SumTotalRevenue(_)
SumTotalRevenue(rows) ==
    IF rows = <<>> THEN 0
    ELSE Head(rows).total_revenue + SumTotalRevenue(Tail(rows))

LogsOfProduct(d, p) == SelectSeq(d.inventory_logs, LAMBDA e : e.product_id = p)
ItemsOfProduct(d, p) == SelectSeq(d.order_items, LAMBDA r : r.product_id = p)
ItemsOfOrder(d, o) == SelectSeq(d.order_items, LAMBDA r : r.order_id = o)
SaleLogsOfOrder(d, o) == SelectSeq(d.inventory_logs, LAMBDA e : e.reason = SaleReason(o))

\* the entries a step appended to a table that only grows
Appended(old, new) == SubSeq(new, Len(old) + 1, Len(new))

AllIdle == \A s \in Sessions : pc[s] = "idle"

\* the precondition of a rejection, read off the committed tables
InvalidItem(d, item) ==
    \/ item.product_id \notin DOMAIN d.products
    \/ item.product_id \notin DOMAIN d.inventory
    \/ d.inventory[item.product_id].quantity < item.quantity

\* product p was stocked at creation and never adjusted by hand
NeverRestocked(d, p) ==
    /\ LogsOfProduct(d, p) # <<>>
    /\ \A i \in DOMAIN d.inventory_logs :
         d.inventory_logs[i].product_id = p =>
             d.inventory_logs[i].reason # ManualUpdateReason

\* no order holds two lines of product p
NoRepeatedLine(d, p) ==
    \A i, j \in DOMAIN d.order_items :
        (d.order_items[i].product_id = p /\ d.order_items[j].product_id = p
         /\ d.order_items[i].order_id = d.order_items[j].order_id) => i = j

(***************************************************************************)
(* C1. No oversell under concurrency: for a product stocked with Q and     *)
(* never restocked, the quantities of that product in the committed lines  *)
(* of orders (each order naming the product once) never add up to more     *)
(* than Q.                                                                 *)
(***************************************************************************)
NoOversell ==
    \A p \in ProductIds :
        (NeverRestocked(db, p) /\ NoRepeatedLine(db, p)) =>
            SumQuantity(ItemsOfProduct(db, p)) <= Head(LogsOfProduct(db, p)).new_quantity

(***************************************************************************)
(* C2. Stock is never negative: with requests executed one at a time,      *)
(* every Inventory.quantity and every InventoryLog.new_quantity is >= 0.   *)
(***************************************************************************)
StockNeverNegative ==
    /\ \A p \in DOMAIN db.inventory : db.inventory[p].quantity >= 0
    /\ \A i \in DOMAIN db.inventory_logs : db.inventory_logs[i].new_quantity >= 0

(***************************************************************************)
(* C3. Validation atomicity: a create_order request with an item whose     *)
(* product is missing, whose stock record is missing or whose stock is     *)
(* below the requested quantity, at any position of the list, is rejected  *)
(* with an error and the committed tables stay as they were.               *)
(***************************************************************************)
ValidationAtomicity ==
    /\ \* a request with an invalid item never gets past validation
       [][\A s \in Sessions :
            (pc[s] = "idle" /\ pc'[s] = "co_validated")
            => \A i \in DOMAIN sess'[s].items :
                  ~InvalidItem(db, sess'[s].items[i])]_vars
    /\ \* the rejection ends the call and writes nothing
       [][(nops' # nops /\ pc' = pc /\ response' = "ValueError")
            => db' = db]_vars

\* an order was rejected although the product it names is in stock
ValidationAtomicityWitness ==
    /\ response = "ValueError"
    /\ \E p \in DOMAIN db.inventory : db.inventory[p].quantity > 0
    /\ db.orders = EmptyTable /\ db.order_items = <<>>

(***************************************************************************)
(* C4. Commit-failure atomicity: when a storage failure ends a create_order*)
(* call after its validation, no Order row, OrderItem row, stock decrement *)
(* or log entry of that call is in the committed tables.                   *)
(***************************************************************************)
CommitFailureAtomicity ==
    [][\A s \in Sessions :
          (sess[s].op = "create_order" /\ pc[s] # "idle"
           /\ pc'[s] = "idle" /\ response' = "InternalError")
          => /\ sess[s].order_id \notin DOMAIN db'.orders
             /\ ItemsOfOrder(db', sess[s].order_id) = <<>>
             /\ SaleLogsOfOrder(db', sess[s].order_id) = <<>>]_vars

(***************************************************************************)
(* C5. Orders become visible as one unit: every committed Order row has    *)
(* its OrderItem rows, a total_amount equal to the sum of their subtotals, *)
(* and one sale log entry per line.                                        *)
(***************************************************************************)
OrdersVisibleAtomically ==
    \A o \in DOMAIN db.orders :
        /\ ItemsOfOrder(db, o) # <<>>
        /\ db.orders[o].total_amount = SumSubtotal(ItemsOfOrder(db, o))
        /\ Len(SaleLogsOfOrder(db, o)) = Len(ItemsOfOrder(db, o))

(***************************************************************************)
(* C6. No lost updates: once every call has finished, the quantity of each *)
(* stock record is the sum of change_quantity over the log entries of its  *)
(* product (the "Initial stock" entry carrying the initial quantity).      *)
(***************************************************************************)
NoLostUpdates ==
    AllIdle =>
        \A p \in DOMAIN db.inventory :
            db.inventory[p].quantity = SumChangeQuantity(LogsOfProduct(db, p))

(***************************************************************************)
(* C7. Sale deduction re-checks at commit: the commit that deducts the     *)
(* stock of an order happens only if, for every line, the committed stock  *)
(* at that moment is at least the requested quantity.                      *)
(***************************************************************************)
SaleDeductionRechecks ==
    [][\A s \in Sessions :
          (sess[s].op = "create_order" /\ pc[s] = "co_deducted"
           /\ db'.inventory # db.inventory)
          => \A i \in DOMAIN sess[s].items : ~InvalidItem(db, sess[s].items[i])]_vars

(***************************************************************************)
(* C8. Audit completeness: a commit that changes the quantity of a stock   *)
(* record from q to q' (q = 0 for a record it creates) appends log entries *)
(* of that product, one per change (one per order line of the product for  *)
(* a sale), whose change_quantity add up to q' - q and the last of which   *)
(* has new_quantity = q'.                                                  *)
(***************************************************************************)
AuditCompleteness ==
    [][\A p \in DOMAIN db'.inventory :
          LET q == IF p \in DOMAIN db.inventory THEN db.inventory[p].quantity ELSE 0
              q2 == db'.inventory[p].quantity
              added == SelectSeq(Appended(db.inventory_logs, db'.inventory_logs),
                                 LAMBDA e : e.product_id = p)
              lines == SelectSeq(Appended(db.order_items, db'.order_items),
                                 LAMBDA r : r.product_id = p)
          IN (p \notin DOMAIN db.inventory \/ q2 # q)
             => /\ added # <<>>
                /\ Len(added) = (IF lines = <<>> THEN 1 ELSE Len(lines))
                /\ SumChangeQuantity(added) = q2 - q
                /\ added[Len(added)].new_quantity = q2]_vars

(***************************************************************************)
(* C9. All-or-nothing lines: the commit that stores the lines of an order  *)
(* stores a line for every requested item together with one sale log entry *)
(* per line and the decremented stock; in every committed state the sale   *)
(* log entries of an order match its lines one to one.                     *)
(***************************************************************************)
LinesMatchSaleLogs(d, o) ==
    LET rows == ItemsOfOrder(d, o)
        logs == SaleLogsOfOrder(d, o)
    IN /\ Len(rows) = Len(logs)
       /\ \A i \in DOMAIN rows :
            /\ logs[i].product_id = rows[i].product_id
            /\ logs[i].change_quantity = 0 - rows[i].quantity

AllOrNothingLines ==
    /\ [](\A o \in DOMAIN db.orders : LinesMatchSaleLogs(db, o))
    /\ [][\A s \in Sessions :
            (sess[s].op = "create_order" /\ pc[s] # pc'[s]
             /\ (db'.order_items # db.order_items
                 \/ db'.inventory_logs # db.inventory_logs
                 \/ db'.inventory # db.inventory))
            => LET o == sess[s].order_id
                   rows == ItemsOfOrder(db', o)
               IN /\ ItemsOfOrder(db, o) = <<>>
                  /\ Len(rows) = Len(sess[s].items)
                  /\ \A i \in DOMAIN rows :
                       /\ rows[i].product_id = sess[s].items[i].product_id
                       /\ rows[i].quantity = sess[s].items[i].quantity
                  /\ LinesMatchSaleLogs(db', o)
                  /\ \A i \in DOMAIN rows :
                       LET logs == LogsOfProduct(db', rows[i].product_id)
                       IN db'.inventory[rows[i].product_id].quantity
                            = logs[Len(logs)].new_quantity]_vars

\* a committed order of two lines, both deducted and logged
AllOrNothingLinesWitness ==
    \E o \in DOMAIN db.orders :
        /\ Len(ItemsOfOrder(db, o)) = 2
        /\ Len(SaleLogsOfOrder(db, o)) = 2

(***************************************************************************)
(* C10. Product creation is atomic: no committed state holds a Product     *)
(* without its Inventory record or without its "Initial stock" log entry.  *)
(***************************************************************************)
ProductCreationAtomic ==
    \A p \in DOMAIN db.products :
        /\ p \in DOMAIN db.inventory
        /\ \E i \in DOMAIN db.inventory_logs :
             /\ db.inventory_logs[i].product_id = p
             /\ db.inventory_logs[i].reason = InitialStockReason

(***************************************************************************)
(* C11. One stock record per product: in every committed state every       *)
(* Product has its Inventory record (the table is keyed by the unique      *)
(* product_id, so it has at most one) and every Inventory record belongs   *)
(* to an existing Product.                                                 *)
(***************************************************************************)
OneStockRecordPerProduct ==
    DOMAIN db.products = DOMAIN db.inventory

\* the commit of an update_inventory call by s (not a storage failure)
AdjustmentCommitted(s) ==
    pc[s] = "ui_read" /\ pc'[s] = "idle" /\ ~StorageFailure(s)

(***************************************************************************)
(* C12. Manual-adjustment clamp: on an existing stock record with quantity *)
(* q >= 0, a request with quantity_change d is not rejected and its commit *)
(* sets the quantity to max(0, q + d); when q + d < 0 the one log entry    *)
(* written has change_quantity = -q and new_quantity = 0.                  *)
(***************************************************************************)
ManualAdjustmentClamp ==
    /\ [][\A s \in Sessions, p \in DOMAIN db.inventory :
            \A u \in InventoryUpdateAdjust :
                (/\ UpdateInventoryRead(s, p, u)
                 /\ p \in DOMAIN db.products
                 /\ ~IsNone(u.quantity_change) /\ IsNone(u.absolute_quantity))
                => pc'[s] = "ui_read"]_vars
    /\ [][\A s \in Sessions :
            (AdjustmentCommitted(s) /\ ~IsNone(sess[s].inventory_in.quantity_change))
            => LET p == sess[s].product_id
                   q == db.inventory[p].quantity
                   d == Val(sess[s].inventory_in.quantity_change)
                   added == Appended(db.inventory_logs, db'.inventory_logs)
               IN /\ response' = "ok"
                  /\ db'.inventory[p].quantity = (IF q + d < 0 THEN 0 ELSE q + d)
                  /\ q + d < 0
                       => added = <<[product_id |-> p,
                                     change_quantity |-> 0 - q,
                                     new_quantity |-> 0,
                                     reason |-> ManualUpdateReason]>>]_vars

\* a stock of 2 was taken to 0 by a quantity_change of -3
ManualAdjustmentClampWitness ==
    /\ response = "ok"
    /\ \E i \in DOMAIN db.inventory_logs :
         /\ db.inventory_logs[i].reason = ManualUpdateReason
         /\ db.inventory_logs[i].change_quantity = -2
         /\ db.inventory_logs[i].new_quantity = 0
         /\ db.inventory[db.inventory_logs[i].product_id].quantity = 0

(***************************************************************************)
(* C13. Adjustment request validation: a request that supplies both        *)
(* quantity_change and absolute_quantity, or none of quantity_change,      *)
(* absolute_quantity and low_stock_threshold, never gets as far as the     *)
(* read of the stock record, and no commit is made for it; this for the    *)
(* endpoint and for crud.update_inventory alike.                           *)
(***************************************************************************)
AdjustmentRequestValidated ==
    /\ [][\A s \in Sessions :
            (pc[s] = "idle" /\ pc'[s] = "ui_read")
            => RequestError(sess'[s].inventory_in) = ""]_vars
    /\ [][\A s \in Sessions :
            AdjustmentCommitted(s) => RequestError(sess[s].inventory_in) = ""]_vars

LogAppendOnly ==
    [][/\ Len(db'.inventory_logs) >= Len(db.inventory_logs)
       /\ SubSeq(db'.inventory_logs, 1, Len(db.inventory_logs))
            = db.inventory_logs]_vars

\* delete_product was tried on a product that has log entries of a sale
LogAppendOnlyWitness ==
    /\ response = "CouldNotDelete"
    /\ \E i \in DOMAIN db.inventory_logs :
         db.inventory_logs[i].reason \notin {InitialStockReason, ManualUpdateReason}

(***************************************************************************)
(* C16. Orders are immutable and single-state: every Order has status      *)
(* "completed", and a step of any operation leaves every committed Order   *)
(* row and the OrderItems of every committed Order as they were.           *)
(***************************************************************************)
OrdersImmutable ==
    /\ [](\A o \in DOMAIN db.orders : db.orders[o].status = "completed")
    /\ [][\A o \in DOMAIN db.orders :
            /\ o \in DOMAIN db'.orders
            /\ db'.orders[o] = db.orders[o]
            /\ ItemsOfOrder(db', o) = ItemsOfOrder(db, o)]_vars

(***************************************************************************)
(* C17. Price snapshot stability: the commit of an update_product leaves   *)
(* every OrderItem (price_at_sale, subtotal) and every Order               *)
(* (total_amount) as it was; an order takes the price the product has when *)
(* the order is validated.                                                 *)
(***************************************************************************)
PriceSnapshotStable ==
    /\ [][\A s \in Sessions :
            (pc[s] = "up_read" /\ pc'[s] = "idle")
            => /\ db'.order_items = db.order_items
               /\ db'.orders = db.orders]_vars
    /\ [][\A s \in Sessions :
            (pc[s] = "idle" /\ pc'[s] = "co_validated")
            => \A i \in DOMAIN sess'[s].order_items_to_create :
                 LET row == sess'[s].order_items_to_create[i]
                 IN /\ row.price_at_sale = db.products[row.product_id].price
                    /\ row.subtotal = row.quantity * row.price_at_sale]_vars

\* a committed line carries a price the product no longer has
PriceSnapshotStableWitness ==
    \E i \in DOMAIN db.order_items :
        LET row == db.order_items[i]
        IN /\ row.product_id \in DOMAIN db.products
           /\ row.price_at_sale # db.products[row.product_id].price
           /\ row.subtotal = row.quantity * row.price_at_sale
           /\ db.orders[row.order_id].total_amount
                = SumSubtotal(ItemsOfOrder(db, row.order_id))

(***************************************************************************)
(* C18. delete_product is blocked by sales history: deleting a product     *)
(* that an OrderItem refers to fails, and the Product, its Inventory       *)
(* record, its OrderItems and its log entries stay as they were.           *)
(***************************************************************************)
DeleteBlockedBySales ==
    [][\A s \in Sessions, p \in ProductIds :
          (DeleteProduct(s, p) /\ ItemsOfProduct(db, p) # <<>>)
          => /\ response' = "CouldNotDelete"
             /\ db' = db]_vars

\* the delete of a sold product was refused and the product is still there
DeleteBlockedBySalesWitness ==
    /\ response = "CouldNotDelete"
    /\ \E p \in DOMAIN db.products :
         /\ ItemsOfProduct(db, p) # <<>>
         /\ p \in DOMAIN db.inventory
         /\ LogsOfProduct(db, p) # <<>>

(***************************************************************************)
(* C19. delete_product succeeds for unsold products: deleting an existing  *)
(* product that no OrderItem refers to succeeds, removes the Product and   *)
(* its Inventory record and leaves the log entries in place.               *)
(***************************************************************************)
DeleteUnsoldSucceeds ==
    [][\A s \in Sessions, p \in ProductIds :
          (/\ DeleteProduct(s, p)
           /\ p \in DOMAIN db.products
           /\ ItemsOfProduct(db, p) = <<>>)
          => /\ response' = "ok"
             /\ p \notin DOMAIN db'.products
             /\ p \notin DOMAIN db'.inventory
             /\ db'.inventory_logs = db.inventory_logs]_vars

SkuUnique ==
    /\ [](\A p1, p2 \in DOMAIN db.products :
            (~IsNone(db.products[p1].sku)
             /\ db.products[p1].sku = db.products[p2].sku) => p1 = p2)
    /\ [][\A s \in Sessions :
            /\ (pc[s] = "cp_checked" /\ pc'[s] # "cp_checked"
                /\ ~IsNone(sess[s].product.sku)
                /\ get_product_by_sku(db, Val(sess[s].product.sku)) # {})
               => (db' = db /\ pc'[s] = "idle" /\ response' # "ok")
            /\ (pc[s] = "up_read" /\ pc'[s] = "idle"
                /\ ~IsNone(sess[s].product_in.sku)
                /\ sess[s].product_in.sku # sess[s].db_product.sku
                /\ get_product_by_sku(db, Val(sess[s].product_in.sku))
                      \ {sess[s].product_id} # {})
               => (db' = db /\ response' # "ok")]_vars

\* a create_product with the empty SKU, which the endpoint does not check,
\* was refused by the unique index: the one product there is carries it
SkuUniqueWitness ==
    /\ response = "DuplicateEntry"
    /\ DOMAIN db.products = {1}
    /\ db.products[1].sku = Some("")

(***************************************************************************)
(* C23. create_product rejects bad references without side effects: a      *)
(* request whose category_id names no category, or whose SKU another       *)
(* product carries, is refused by the endpoint's checks or, when it gets   *)
(* past them, by the INSERT, and no Product, Inventory or InventoryLog row *)
(* is created.                                                             *)
(***************************************************************************)
CreateProductRejectsBadReferences ==
    [][\A s \in Sessions :
        /\ \A product_in \in ProductCreateSku :
              (/\ CreateProductCheck(s, product_in)
               /\ \/ IsNone(get_category(db, product_in.category_id))
                  \/ /\ Truthy(product_in.sku)
                     /\ get_product_by_sku(db, Val(product_in.sku)) # {})
              => (db' = db /\ pc'[s] = "idle" /\ response' = "BadRequest")
        /\ (/\ pc[s] = "cp_checked" /\ pc'[s] # "cp_checked"
            /\ \/ IsNone(get_category(db, sess[s].product.category_id))
               \/ /\ ~IsNone(sess[s].product.sku)
                  /\ get_product_by_sku(db, Val(sess[s].product.sku)) # {})
           => (db' = db /\ pc'[s] = "idle" /\ response' # "ok")]_vars

\* a create_product naming a missing category was refused on an empty catalog
CreateProductRejectsBadReferencesWitness ==
    /\ response = "BadRequest"
    /\ db.products = EmptyTable
    /\ db.inventory = EmptyTable
    /\ db.inventory_logs = <<>>
    /\ nops > 0

(***************************************************************************)
(* C24. Idempotent sales listing: two calls of get_sales_data with the     *)
(* same filters, page and page_size and no write between them return the   *)
(* same total_items, num_pages and items in the same order, also when      *)
(* several items share one order_date.                                     *)
(***************************************************************************)
IdempotentSalesListing ==
    \A s1, s2 \in Sessions :
        (/\ pc[s1] = "sd_fetched" /\ pc[s2] = "sd_fetched"
         /\ sess[s1].request = sess[s2].request)
        => sess[s1].sales_data_paginated = sess[s2].sales_data_paginated

\* the revenue of a date range, read off the committed order items
RevenueOf(d, start_date, end_date, category_id) ==
    SumSubtotal(SelectSeq(d.order_items,
        LAMBDA r : /\ order_date(d, r.order_id) >= start_date
                   /\ order_date(d, r.order_id) <= end_date
                   /\ (IsNone(category_id)
                       \/ d.products[r.product_id].category_id = Val(category_id))))

(***************************************************************************)
(* C25. Revenue comparison sentinel: a comparison of two valid periods     *)
(* with totals rev1 and rev2 returns difference = rev2 - rev1 and a        *)
(* percentage_change that is 0 when both totals are 0, the infinite        *)
(* sentinel when rev1 = 0 < rev2, and (rev2 - rev1) / rev1 * 100 rounded   *)
(* to two places when rev1 > 0; it does not fail.                          *)
(***************************************************************************)
RevenueComparisonSentinel ==
    \A s \in Sessions :
        pc[s] = "rc_validated"
        => LET request == sess[s].request
               r == RevenueComparison(db, request)
               rev1 == RevenueOf(db, request.p1_start, request.p1_end,
                                 request.category_id1)
               rev2 == RevenueOf(db, request.p2_start, request.p2_end,
                                 request.category_id1)
               pct == r.percentage_change
               off == pct.hundredths * rev1 - (rev2 - rev1) * 10000
           IN /\ r.error = ""
              /\ r.period1_revenue = rev1
              /\ r.period2_revenue = rev2
              /\ r.difference = rev2 - rev1
              /\ (rev1 = 0 /\ rev2 = 0) => pct = [inf |-> FALSE, hundredths |-> 0]
              /\ (rev1 = 0 /\ rev2 > 0) => pct.inf
              /\ rev1 > 0 => /\ ~pct.inf
                             /\ 2 * off <= rev1
                             /\ 2 * off >= 0 - rev1

(***************************************************************************)
(* C26. Monthly revenue buckets: over a range covering the orders dated    *)
(* 2024-01-05, 2024-01-20 and 2024-02-02 the monthly summary returns two   *)
(* rows in ascending order, January (2024-01-01 to 2024-01-31) with the    *)
(* subtotals of the first two orders and February (2024-02-01 to           *)
(* 2024-02-29) with the third's; for every range the totals of the rows    *)
(* of a monthly summary add up to the revenue of the range.                *)
(***************************************************************************)
MonthlyRevenueBuckets ==
    \A s \in Sessions :
        (pc[s] = "rs_validated" /\ sess[s].request.period = "monthly")
        => LET request == sess[s].request
               r == get_revenue_summary(db, request.period, request.start_date,
                                        request.end_date, request.category_id)
           IN /\ r.error = ""
              /\ SumTotalRevenue(r.rows)
                   = RevenueOf(db, request.start_date, request.end_date,
                               request.category_id)
              /\ (request.start_date = 20240101 /\ request.end_date = 20240229)
                 => r.rows =
                      <<[period_start |-> 20240101, period_end |-> 20240131,
                         total_revenue |-> SumSubtotal(ItemsOfOrder(db, 1))
                                           + SumSubtotal(ItemsOfOrder(db, 2))],
                        [period_start |-> 20240201, period_end |-> 20240229,
                         total_revenue |-> SumSubtotal(ItemsOfOrder(db, 3))]>>

(***************************************************************************)
(* C27. Adjustment logging rule: on an existing stock record with prior    *)
(* quantity q, the commit of update_inventory appends exactly one          *)
(* InventoryLog entry when the resulting quantity differs from q, or a     *)
(* non-zero quantity_change was supplied, or a non-zero absolute_quantity  *)
(* was supplied, and appends none otherwise; so absolute_quantity = q > 0  *)
(* writes an entry with change_quantity = 0 and quantity_change = 0 none.  *)
(***************************************************************************)
AdjustmentLoggingRule ==
    [][\A s \in Sessions :
        AdjustmentCommitted(s)
        => LET p == sess[s].product_id
               u == sess[s].inventory_in
               q == db.inventory[p].quantity
               added == Appended(db.inventory_logs, db'.inventory_logs)
               logged ==
                   \/ db'.inventory[p].quantity # q
                   \/ (~IsNone(u.quantity_change) /\ Val(u.quantity_change) # 0)
                   \/ (~IsNone(u.absolute_quantity) /\ Val(u.absolute_quantity) # 0)
           IN /\ Len(added) = (IF logged THEN 1 ELSE 0)
              /\ \A i \in DOMAIN added :
                   /\ added[i].product_id = p
                   /\ added[i].change_quantity = db'.inventory[p].quantity - q
                   /\ added[i].new_quantity = db'.inventory[p].quantity]_vars

(***************************************************************************)
(* C28. Order pricing: every committed Order has total_amount equal to the *)
(* sum of the subtotals of its OrderItems, every OrderItem has             *)
(* quantity > 0 and subtotal = quantity * price_at_sale, the items the     *)
(* final commit writes carry the prices read by the validation pass, and   *)
(* the commit of an update_product changes no stored order or item.        *)
(***************************************************************************)
OrderPricing ==
    /\ [](\A o \in DOMAIN db.orders :
            db.orders[o].total_amount = SumSubtotal(ItemsOfOrder(db, o)))
    /\ [](\A i \in DOMAIN db.order_items :
            /\ db.order_items[i].quantity > 0
            /\ db.order_items[i].subtotal
                 = db.order_items[i].quantity * db.order_items[i].price_at_sale)
    /\ [][\A s \in Sessions :
            /\ (pc[s] = "co_deducted" /\ pc'[s] = "idle" /\ response' = "ok")
               => LET added == Appended(db.order_items, db'.order_items)
                      read == sess[s].order_items_to_create
                  IN /\ Len(added) = Len(read)
                     /\ \A i \in DOMAIN added :
                          /\ added[i].order_id = sess[s].order_id
                          /\ added[i].product_id = read[i].product_id
                          /\ added[i].quantity = read[i].quantity
                          /\ added[i].price_at_sale = read[i].price_at_sale
            /\ (pc[s] = "up_read" /\ pc'[s] = "idle")
               => /\ db'.orders = db.orders
                  /\ db'.order_items = db.order_items]_vars

\* the sale entries among the log entries of a product
SaleLogsOfProduct(d, p) ==
    SelectSeq(d.inventory_logs,
              LAMBDA e : e.product_id = p /\ e.reason[1] = "Sale - Order ID:")

LedgerHeadMatchesStock ==
    \A p \in DOMAIN db.inventory :
        LET logs == LogsOfProduct(db, p)
        IN /\ logs # <<>>
           /\ logs[Len(logs)].new_quantity = db.inventory[p].quantity
           /\ SumChangeQuantity(logs) = db.inventory[p].quantity

\* a product was stocked, adjusted by hand and sold
LedgerHeadMatchesStockWitness ==
    \E p \in DOMAIN db.inventory :
        LET logs == LogsOfProduct(db, p)
        IN /\ Len(logs) >= 3
           /\ \E i \in DOMAIN logs : logs[i].reason = ManualUpdateReason
           /\ logs[Len(logs)].reason[1] = "Sale - Order ID:"

====
